---- MODULE Spec2Model ----
(***************************************************************************)
(* Model of the authenticated-request subsystem of mellonhead-invoices:    *)
(* QuickBooksAuthManager in src/qb_auth_manager.py.                        *)
(*                                                                         *)
(* Time is counted in whole minutes.  Tokens are numbered in the order the *)
(* provider issues them; 0 stands for a missing or empty value.            *)
(***************************************************************************)
EXTENDS Integers, Sequences, FiniteSets, TLC

VARIABLES
    credentials,  \* self.credentials, the in-memory credential set
    file,         \* content of self.credentials_file
    now,          \* datetime.now(), in minutes
    issued,       \* number of token pairs the provider has issued so far
    pc,           \* position of the single thread of control
    attempt,      \* loop variable of make_authenticated_request
    kwargs,       \* the request options of the running call
    trace,        \* network calls and sleeps of the running operation
    response,     \* value returned by make_authenticated_request
    result,       \* value returned by the boolean operations
    loaded,       \* what concurrent _load_credentials calls read from the file
    disk,         \* lines of self.credentials_file while it is being written
    written,      \* number of items _save_credentials has written so far
    error_log     \* QuickBooksErrorHandler.error_log

vars == <<credentials, file, now, issued, pc, attempt, kwargs, trace,
          response, result, loaded, disk, written, error_log>>

(* the variables outside the authentication manager's own operations *)
others == <<loaded, disk, written, error_log>>

----------------------------------------------------------------------------
(* Bounds of the model *)

MaxNow == 57
MaxTok == 3

(* Constants of the program *)

ExpiryMinutes == 55
max_retries == 2
EXPIRED == -1
NoResponse == 0

(* '2020-01-01T00:00:00', the forced-stale timestamp: a date far in the past *)
ForcedStaleTime == 0 - 1000000

CallerAuth == MaxTok + 1

----------------------------------------------------------------------------
(* Values *)

Stamp(k, t) == [kind |-> k, t |-> t]
MissingStamp == Stamp("missing", 0)
EmptyStamp == Stamp("empty", 0)
MalformedStamp == Stamp("malformed", 0)
ForcedStale == Stamp("naive", ForcedStaleTime)

Statuses == {200, 400, 401, 403, 404, 429, 500, 503}

HttpOutcomes ==
    [exc : {"none"}, status : Statuses]
        \cup [exc : {"Timeout", "ConnectionError", "Exception"}, status : {0}]

(* What the token endpoint can answer to one POST. *)
Reply(exc, status, error, body) ==
    [exc |-> exc, status |-> status, error |-> error, body |-> body]

RefreshReplies ==
    { Reply("none", 200, "", "both"),
      Reply("none", 200, "", "access_only"),
      Reply("none", 400, "invalid_grant", ""),
      Reply("none", 400, "other", "expired"),
      Reply("none", 401, "other", ""),
      Reply("none", 500, "other", ""),
      Reply("Timeout", 0, "", "") }

(* One entry of the trace: a POST to the token endpoint ("refresh"), a   *)
(* refresh that returned before posting ("refresh_nopost"), an API call   *)
(* ("http") or a time.sleep ("sleep"), with the loop index it happened in *)
Event(op, exc, code, tok, ok, att) ==
    [op |-> op, exc |-> exc, code |-> code, tok |-> tok, ok |-> ok,
     attempt |-> att, detail |-> ""]

(* a POST to the token endpoint, with what the answer's body said *)
RefreshEvent(reply, tok, ok, att) ==
    [op |-> "refresh", exc |-> reply.exc, code |-> reply.status, tok |-> tok,
     ok |-> ok, attempt |-> att,
     detail |-> IF reply.status = 200 THEN reply.body ELSE reply.error]

----------------------------------------------------------------------------
(* _is_token_expired *)

FromIsoFormatRaises(ts) == ts.kind = "malformed"

SubtractRaises(ts) == ts.kind = "aware"

(* mutant: a credential set without timestamp counts as fresh *)
is_token_expired_missing_ok(creds, t) ==
    LET ts == creds.TOKEN_TIMESTAMP IN
    IF ts.kind \in {"missing", "empty"} THEN FALSE
    ELSE IF FromIsoFormatRaises(ts) THEN TRUE
    ELSE IF SubtractRaises(ts) THEN TRUE
    ELSE t - ts.t > ExpiryMinutes

(* mutant: the comparison with the 55-minute buffer is not strict *)
is_token_expired_ge(creds, t) ==
    LET ts == creds.TOKEN_TIMESTAMP IN
    IF ts.kind \in {"missing", "empty"} THEN TRUE
    ELSE IF FromIsoFormatRaises(ts) THEN TRUE
    ELSE IF SubtractRaises(ts) THEN TRUE
    ELSE t - ts.t >= ExpiryMinutes

is_token_expired(creds, t) ==
    LET ts == creds.TOKEN_TIMESTAMP IN
    IF ts.kind \in {"missing", "empty"} THEN TRUE
    ELSE IF FromIsoFormatRaises(ts) THEN TRUE
    ELSE IF SubtractRaises(ts) THEN TRUE
    ELSE t - ts.t > ExpiryMinutes

----------------------------------------------------------------------------
(* refresh_access_token: the credential set, the file and the return value *)
(* after the token endpoint gave `reply`; `sent` tells whether the POST    *)
(* was made at all.  `tok` is the token pair the provider issues on 200.   *)

Outcome(creds, f, ok, sent) ==
    [credentials |-> creds, file |-> f, ok |-> ok, sent |-> sent]

(* mutant: the timestamp of the refresh is not recorded *)
StoreTokensNoStamp(creds, tok, t) ==
    [creds EXCEPT !.INTUIT_ACCESS_TOKEN = tok,
                  !.INTUIT_REFRESH_TOKEN = tok]

(* mutant: the rotated refresh token is not stored *)
StoreTokensNoRotation(creds, tok, t) ==
    [creds EXCEPT !.INTUIT_ACCESS_TOKEN = tok,
                  !.TOKEN_TIMESTAMP = Stamp("naive", t)]

(* the three assignments after a 200 answer *)
StoreTokens(creds, tok, t) ==
    [creds EXCEPT !.INTUIT_ACCESS_TOKEN = tok,
                  !.INTUIT_REFRESH_TOKEN = tok,
                  !.TOKEN_TIMESTAMP = Stamp("naive", t)]

(* mutant: invalid_grant leaves the refresh token as it is *)
MarkExpiredNot(creds) == creds

(* self.credentials['INTUIT_REFRESH_TOKEN'] = 'EXPIRED' *)
MarkExpired(creds) == [creds EXCEPT !.INTUIT_REFRESH_TOKEN = EXPIRED]

(* mutant: any missing client credential is noticed only by the provider *)
MissingCredentialsTokenOnly(creds) ==
    creds.INTUIT_REFRESH_TOKEN = 0

(* not all([refresh_token, client_id, client_secret]) *)
MissingCredentials(creds) ==
    \/ creds.INTUIT_REFRESH_TOKEN = 0
    \/ creds.INTUIT_CLIENT_ID = 0
    \/ creds.INTUIT_CLIENT_SECRET = 0

(* _save_credentials: the file is overwritten with the whole credential *)
(* set (the steps of the write are the subject of SpecSave)              *)
save_credentials(creds, f) == creds

refresh_access_token(creds, f, reply, t, tok) ==
    IF MissingCredentials(creds)
    THEN Outcome(creds, f, FALSE, FALSE)
    ELSE IF reply.exc # "none" THEN Outcome(creds, f, FALSE, TRUE)
    ELSE IF reply.status = 200 THEN
        IF reply.body = "both" THEN
            LET c == StoreTokens(creds, tok, t)
            IN Outcome(c, save_credentials(c, f), TRUE, TRUE)
        ELSE IF reply.body = "access_only" THEN
            \* token_data['refresh_token'] raises KeyError after the access
            \* token was stored; nothing is saved
            Outcome([creds EXCEPT !.INTUIT_ACCESS_TOKEN = tok], f, FALSE, TRUE)
        ELSE Outcome(creds, f, FALSE, TRUE)
    ELSE IF reply.status = 400 /\ reply.error = "invalid_grant" THEN
        LET c == MarkExpired(creds)
        IN Outcome(c, save_credentials(c, f), FALSE, TRUE)
    ELSE Outcome(creds, f, FALSE, TRUE)

----------------------------------------------------------------------------
(* get_valid_headers: refresh if the token is expired, then build the      *)
(* bearer header.  headers = 0 stands for None.                            *)

get_valid_headers(creds, f, reply, t, tok) ==
    LET expired == is_token_expired(creds, t)
        r == IF expired THEN refresh_access_token(creds, f, reply, t, tok)
             ELSE Outcome(creds, f, TRUE, FALSE)
    IN [credentials |-> r.credentials,
        file |-> r.file,
        refreshed |-> expired,
        sent |-> r.sent,
        ok |-> r.ok,
        headers |-> IF r.ok THEN r.credentials.INTUIT_ACCESS_TOKEN ELSE 0]

(* headers.update(kwargs['headers']); kwargs['headers'] = headers *)
MergeHeaders(bearer, kw) ==
    IF kw.headers /\ kw.Authorization # 0 THEN kw.Authorization ELSE bearer

(* The provider: it answers 200 with a new token pair only to the refresh *)
(* token it issued last (it rotates the refresh token at every refresh),  *)
(* and it issues at most MaxTok pairs.                                    *)
IssuesTokens(reply) ==
    reply.exc = "none" /\ reply.status = 200 /\ reply.body # ""

ProviderCanAnswer(reply, sentTok) ==
    IssuesTokens(reply) => (issued < MaxTok /\ sentTok = issued)

RefreshEvents(h, reply, sentTok, att) ==
    IF ~h.refreshed THEN <<>>
    ELSE IF h.sent
    THEN <<RefreshEvent(reply, sentTok, h.ok, att)>>
    ELSE <<Event("refresh_nopost", "none", 0, sentTok, h.ok, att)>>

----------------------------------------------------------------------------
(* The state after construction: the credential set is the file's content *)

InitStamps ==
    {MissingStamp, MalformedStamp,
     Stamp("naive", 0), Stamp("naive", ExpiryMinutes - 10),
     Stamp("aware", ExpiryMinutes - 10)}

Credentials(a, r, id, secret, ts) ==
    [INTUIT_ACCESS_TOKEN |-> a, INTUIT_REFRESH_TOKEN |-> r,
     INTUIT_CLIENT_ID |-> id, INTUIT_CLIENT_SECRET |-> secret,
     TOKEN_TIMESTAMP |-> ts]

(* refresh token, client id and client secret of the file: all present, *)
(* or one of them missing or empty                                       *)
InitSecrets == {<<1, 1, 1>>, <<0, 1, 1>>, <<1, 0, 1>>, <<1, 1, 0>>}

Init ==
    /\ \E a \in {0, 1}, k \in InitSecrets, ts \in InitStamps :
          credentials = Credentials(a, k[1], k[2], k[3], ts)
    /\ file = credentials
    /\ now = ExpiryMinutes
    /\ issued = 1
    /\ pc = "idle"
    /\ attempt = 0
    /\ kwargs = [headers |-> FALSE, Authorization |-> 0]
    /\ trace = <<>>
    /\ response = NoResponse
    /\ result = FALSE
    /\ loaded = <<>>
    /\ disk = <<>>
    /\ written = 0
    /\ error_log = <<>>

----------------------------------------------------------------------------
(* make_authenticated_request *)

(* the call is made; the caller passes no headers, headers without an *)
(* Authorization entry, or headers with its own Authorization entry    *)
Call ==
    /\ pc = "idle"
    /\ \E kw \in {[headers |-> FALSE, Authorization |-> 0],
                  [headers |-> TRUE, Authorization |-> 0],
                  [headers |-> TRUE, Authorization |-> CallerAuth]} :
          kwargs' = kw
    /\ pc' = "headers"
    /\ attempt' = 0
    /\ trace' = <<>>
    /\ response' = NoResponse
    /\ UNCHANGED <<credentials, file, now, issued, result>>
    /\ UNCHANGED others

(* top of the loop body: headers = self.get_valid_headers() and the merge *)
Headers ==
    /\ pc = "headers"
    /\ \E reply \in RefreshReplies :
          LET h == get_valid_headers(credentials, file, reply, now, issued + 1)
              gotTok == h.sent /\ IssuesTokens(reply)
          IN /\ h.sent =>
                   ProviderCanAnswer(reply, credentials.INTUIT_REFRESH_TOKEN)
             /\ ~h.sent => reply = Reply("Timeout", 0, "", "")
             /\ credentials' = h.credentials
             /\ file' = h.file
             /\ issued' = IF gotTok THEN issued + 1 ELSE issued
             /\ trace' = trace \o RefreshEvents(h, reply,
                                     credentials.INTUIT_REFRESH_TOKEN, attempt)
             /\ IF h.headers = 0
                THEN /\ IF attempt < max_retries
                        THEN /\ attempt' = attempt + 1
                             /\ pc' = "headers"
                        ELSE /\ attempt' = attempt
                             /\ pc' = "done"
                     /\ response' = NoResponse
                     /\ kwargs' = kwargs
                ELSE /\ kwargs' = [headers |-> TRUE,
                                   Authorization |-> MergeHeaders(h.headers, kwargs)]
                     /\ pc' = "request"
                     /\ UNCHANGED <<attempt, response>>
    /\ UNCHANGED <<now, result>>
    /\ UNCHANGED others

Sleep(n, att) == Event("sleep", "none", n, 0, TRUE, att)

Pow2(n) == IF n = 0 THEN 1 ELSE IF n = 1 THEN 2 ELSE 4

(* mutant: the same pause before every retry *)
BackoffConstant(att) == 1

(* time.sleep(2 ** attempt) *)
BackoffSleep(att) == Pow2(att)

(* time.sleep(1) after a timeout or another exception, time.sleep(2) after *)
(* a connection error                                                      *)
ExcSleep(exc) == IF exc = "ConnectionError" THEN 2 ELSE 1

(* mutant: only the first 401 is retried *)
Retry401Once(o, att) ==
    o.exc = "none" /\ o.status = 401 /\ att < max_retries - 1

(* mutant: a 403 is retried like a 401 *)
Retry401Or403(o, att) ==
    o.exc = "none" /\ o.status \in {401, 403} /\ att < max_retries

(* mutant: a 401 on the last attempt is retried as well *)
Retry401Always(o, att) ==
    o.exc = "none" /\ o.status = 401 /\ att <= max_retries

(* response.status_code == 401 and attempt < max_retries *)
Retry401(o, att) ==
    o.exc = "none" /\ o.status = 401 /\ att < max_retries

(* mutant: a server error is retried only once *)
Retry5xxOnce(o, att) ==
    /\ o.exc = "none"
    /\ o.status \notin {401, 403}
    /\ o.status >= 500
    /\ att < max_retries - 1

(* mutant: rate limiting is retried with backoff too *)
Retry5xxOr429(o, att) ==
    /\ o.exc = "none"
    /\ o.status \notin {401, 403}
    /\ (o.status >= 500 \/ o.status = 429)
    /\ att < max_retries

(* the elif branch: response.status_code >= 500 and attempt < max_retries *)
Retry5xx(o, att) ==
    /\ o.exc = "none"
    /\ o.status \notin {401, 403}
    /\ o.status >= 500
    /\ att < max_retries

(* mutant: a connection error is not retried *)
RetryExcNoConn(o, att) ==
    o.exc \notin {"none", "ConnectionError"} /\ att < max_retries

(* the except clauses: attempt < max_retries *)
RetryExc(o, att) ==
    o.exc # "none" /\ att < max_retries

(* requests.request(method, url, **kwargs) and the handling of its outcome *)
Request ==
    /\ pc = "request"
    /\ \E o \in HttpOutcomes :
          LET ev == Event("http", o.exc, o.status, kwargs.Authorization,
                          o.exc = "none", attempt)
          IN IF Retry401(o, attempt)
             THEN /\ credentials' = [credentials EXCEPT
                                       !.TOKEN_TIMESTAMP = ForcedStale]
                  /\ trace' = Append(trace, ev)
                  /\ attempt' = attempt + 1
                  /\ pc' = "headers"
                  /\ UNCHANGED response
             ELSE IF Retry5xx(o, attempt)
             THEN /\ trace' = trace \o <<ev, Sleep(BackoffSleep(attempt), attempt)>>
                  /\ attempt' = attempt + 1
                  /\ pc' = "headers"
                  /\ UNCHANGED <<credentials, response>>
             ELSE IF o.exc = "none"
             THEN /\ trace' = Append(trace, ev)
                  /\ response' = o.status
                  /\ pc' = "done"
                  /\ UNCHANGED <<credentials, attempt>>
             ELSE IF RetryExc(o, attempt)
             THEN /\ trace' = trace \o <<ev, Sleep(ExcSleep(o.exc), attempt)>>
                  /\ attempt' = attempt + 1
                  /\ pc' = "headers"
                  /\ UNCHANGED <<credentials, response>>
             ELSE /\ trace' = Append(trace, ev)
                  /\ response' = NoResponse
                  /\ pc' = "done"
                  /\ UNCHANGED <<credentials, attempt>>
    /\ UNCHANGED <<file, now, issued, kwargs, result>>
    /\ UNCHANGED others

(* refresh_access_token called on its own *)
RefreshCall ==
    /\ pc = "idle"
    /\ \E reply \in RefreshReplies :
          LET r == refresh_access_token(credentials, file, reply, now, issued + 1)
              h == [refreshed |-> TRUE, sent |-> r.sent, ok |-> r.ok]
          IN /\ r.sent =>
                   ProviderCanAnswer(reply, credentials.INTUIT_REFRESH_TOKEN)
             /\ ~r.sent => reply = Reply("Timeout", 0, "", "")
             /\ credentials' = r.credentials
             /\ file' = r.file
             /\ issued' = IF r.sent /\ IssuesTokens(reply)
                           THEN issued + 1 ELSE issued
             /\ trace' = RefreshEvents(h, reply,
                                       credentials.INTUIT_REFRESH_TOKEN, 0)
             /\ result' = r.ok
    /\ pc' = "refresh_done"
    /\ UNCHANGED <<now, attempt, kwargs, response>>
    /\ UNCHANGED others

(* mutant: the sentinel is not recognised, the probe is made *)
ObviouslyInvalidEmptyOnly(creds) ==
    creds.INTUIT_REFRESH_TOKEN = 0

(* not refresh_token or refresh_token == 'EXPIRED' *)
ObviouslyInvalid(creds) ==
    creds.INTUIT_REFRESH_TOKEN = 0 \/ creds.INTUIT_REFRESH_TOKEN = EXPIRED

(* requires_manual_reauth *)
ReauthCall ==
    /\ pc = "idle"
    /\ \E reply \in RefreshReplies :
          LET probe == ~ObviouslyInvalid(credentials)
                          /\ is_token_expired(credentials, now)
              r == IF probe
                   THEN refresh_access_token(credentials, file, reply, now,
                                             issued + 1)
                   ELSE Outcome(credentials, file, TRUE, FALSE)
              h == [refreshed |-> probe, sent |-> r.sent, ok |-> r.ok]
          IN /\ r.sent =>
                   ProviderCanAnswer(reply, credentials.INTUIT_REFRESH_TOKEN)
             /\ ~r.sent => reply = Reply("Timeout", 0, "", "")
             /\ credentials' = r.credentials
             /\ file' = r.file
             /\ issued' = IF r.sent /\ IssuesTokens(reply)
                           THEN issued + 1 ELSE issued
             /\ trace' = RefreshEvents(h, reply,
                                       credentials.INTUIT_REFRESH_TOKEN, 0)
             /\ result' = (ObviouslyInvalid(credentials) \/ ~r.ok)
    /\ pc' = "reauth_done"
    /\ UNCHANGED <<now, attempt, kwargs, response>>
    /\ UNCHANGED others

(* the caller has the return value; the manager is idle again *)
Return ==
    /\ pc \in {"done", "refresh_done", "reauth_done"}
    /\ pc' = "idle"
    /\ UNCHANGED <<credentials, file, now, issued, attempt, kwargs, trace,
                   response, result>>
    /\ UNCHANGED others

(* a minute passes *)
Tick ==
    /\ now < MaxNow
    /\ now' = now + 1
    /\ UNCHANGED <<credentials, file, issued, pc, attempt, kwargs, trace,
                   response, result>>
    /\ UNCHANGED others

Next ==
    Call \/ Headers \/ Request \/ RefreshCall \/ ReauthCall \/ Return \/ Tick

Spec == Init /\ [][Next]_vars

----------------------------------------------------------------------------
(* _is_token_expired applied to any credential set at any time *)

AllStamps ==
    {MissingStamp, EmptyStamp, MalformedStamp}
        \cup {Stamp(k, t) : k \in {"naive", "aware"}, t \in 0..MaxNow}

FreshInit ==
    /\ \E a \in {0, 1}, r \in {EXPIRED, 0, 1}, ts \in AllStamps :
          credentials = Credentials(a, r, 1, 1, ts)
    /\ file = credentials
    /\ now \in 0..MaxNow
    /\ issued = 1
    /\ pc = "is_token_expired"
    /\ attempt = 0
    /\ kwargs = [headers |-> FALSE, Authorization |-> 0]
    /\ trace = <<>>
    /\ response = NoResponse
    /\ result = FALSE
    /\ loaded = <<>>
    /\ disk = <<>>
    /\ written = 0
    /\ error_log = <<>>

IsTokenExpiredCall ==
    /\ pc = "is_token_expired"
    /\ result' = is_token_expired(credentials, now)
    /\ pc' = "checked"
    /\ UNCHANGED <<credentials, file, now, issued, attempt, kwargs, trace,
                   response>>
    /\ UNCHANGED others

FreshNext == IsTokenExpiredCall

SpecFresh == FreshInit /\ [][FreshNext]_vars

----------------------------------------------------------------------------
(* Reading the trace of the running (or last) make_authenticated_request *)

HttpIdx == {i \in DOMAIN trace : trace[i].op = "http"}

RefreshIdx == {i \in DOMAIN trace : trace[i].op \in {"refresh", "refresh_nopost"}}

SleepIdx == {i \in DOMAIN trace : trace[i].op = "sleep"}

IsHttp(e) == e.op = "http"

HttpEvents == SelectSeq(trace, IsHttp)

HttpCodes == [i \in DOMAIN HttpEvents |-> HttpEvents[i].code]

Returned == pc \in {"done", "idle"}

IsLast(i) == i = Len(trace)

----------------------------------------------------------------------------
(* C1: if the pre-flight token refresh fails on some attempt of            *)
(* make_authenticated_request, the call is aborted at once: after the      *)
(* failed refresh the same call posts no further refresh to the token      *)
(* endpoint and makes no API call.                                         *)
C1_AbortOnRefreshFailure ==
    \A i \in RefreshIdx :
        ~trace[i].ok =>
            \A j \in DOMAIN trace :
                j > i => trace[j].op \notin {"refresh", "http"}

(* C2: from a fresh token, the responses [401, 200] give the 200 as the   *)
(* result after exactly two API calls and exactly one refresh attempt.    *)
C2_OneRefreshBetween ==
    (/\ pc = "done"
     /\ trace # <<>>
     /\ trace[1].op = "http"
     /\ HttpCodes = <<401, 200>>)
    => /\ response = 200
       /\ Cardinality(HttpIdx) = 2
       /\ Cardinality(RefreshIdx) = 1

C4_BearerIsCurrent ==
    (pc = "request" /\ kwargs.Authorization # CallerAuth)
        => kwargs.Authorization = credentials.INTUIT_ACCESS_TOKEN

(* C5: a 403 response is the last thing that happens in the call (no API  *)
(* call, refresh or sleep after it) and it is what the call returns.      *)
C5_403ReturnedAtOnce ==
    \A i \in HttpIdx :
        trace[i].code = 403 => IsLast(i) /\ Returned /\ response = 403

C5_Witness ==
    /\ pc = "done"
    /\ Len(HttpCodes) = 3
    /\ HttpCodes[3] = 403
    /\ response = 403

(* C6: when every attempt the call made received a 401, or every one a   *)
(* status >= 500, the call made exactly 3 API calls and returned the last *)
(* response it received, with that status.                                *)
AllAttemptsGot(P(_)) ==
    \A a \in 0..attempt :
        \E i \in HttpIdx :
            trace[i].attempt = a /\ trace[i].exc = "none" /\ P(trace[i].code)

Is401(c) == c = 401

Is5xx(c) == c >= 500

C6_ThreeAttemptsLastReturned ==
    (pc = "done" /\ (AllAttemptsGot(Is401) \/ AllAttemptsGot(Is5xx)))
        => /\ Cardinality(HttpIdx) = max_retries + 1
           /\ IsLast(Len(trace)) /\ trace[Len(trace)].op = "http"
           /\ response = trace[Len(trace)].code
           /\ response # NoResponse

C6_Witness ==
    /\ pc = "done"
    /\ AllAttemptsGot(Is5xx)
    /\ Len(HttpCodes) = 3
    /\ response = 503

(* C7: a response whose status is none of 401, 403, >= 500 is returned by *)
(* the attempt that received it: it is the last event of the call (no     *)
(* retry, refresh or sleep after it) and the call's result.               *)
C7_OtherStatusReturnedAtOnce ==
    \A i \in HttpIdx :
        (trace[i].exc = "none" /\ trace[i].code \notin {401, 403}
            /\ trace[i].code < 500)
        => IsLast(i) /\ Returned /\ response = trace[i].code

C7_Witness ==
    /\ pc = "done"
    /\ HttpCodes = <<500, 429>>
    /\ response = 429
    /\ SleepIdx # {}

(* C8: an API call that raises (timeout, connection error) is followed by *)
(* a sleep and the next attempt while attempts remain; the call makes at  *)
(* most 3 API calls; when the last attempt raises, the call returns the   *)
(* no-response value, which no HTTP response equals.                      *)
C8_ExceptionRetriedThenNoResponse ==
    /\ Cardinality(HttpIdx) <= max_retries + 1
    /\ NoResponse \notin Statuses
    /\ \A i \in HttpIdx :
          trace[i].exc # "none" =>
              IF trace[i].attempt < max_retries
              THEN /\ ~IsLast(i)
                   /\ trace[i + 1].op = "sleep"
                   /\ IsLast(i + 1) => /\ pc \in {"headers", "request"}
                                       /\ attempt = trace[i].attempt + 1
              ELSE IsLast(i) /\ Returned /\ response = NoResponse

C8_Witness ==
    /\ pc = "done"
    /\ Len(HttpEvents) = 3
    /\ HttpEvents[1].exc = "Timeout"
    /\ HttpEvents[2].exc = "ConnectionError"
    /\ HttpEvents[3].exc = "ConnectionError"
    /\ response = NoResponse

----------------------------------------------------------------------------
(* Claims about _is_token_expired, checked under SpecFresh *)

Age == now - credentials.TOKEN_TIMESTAMP.t

StampKind == credentials.TOKEN_TIMESTAMP.kind

(* C9 as stated: true when the timestamp is missing or does not parse,   *)
(* otherwise true exactly when now - timestamp > 55 minutes.              *)
C9_ExpiredIffOlderThan55 ==
    pc = "checked" =>
        result = (\/ StampKind \in {"missing", "empty", "malformed"}
                  \/ StampKind \in {"naive", "aware"} /\ Age > ExpiryMinutes)

(* C9 amended: true when the timestamp is missing, does not parse, or    *)
(* parses to a time with a UTC offset (which cannot be subtracted from    *)
(* the offset-free current time); otherwise true exactly when             *)
(* now - timestamp > 55 minutes.                                          *)
C9_ExpiredIffUnusableOrOlderThan55 ==
    pc = "checked" =>
        result = (\/ StampKind \in {"missing", "empty", "malformed", "aware"}
                  \/ StampKind = "naive" /\ Age > ExpiryMinutes)

C9_Witness ==
    /\ pc = "checked"
    /\ StampKind = "naive"
    /\ Age = ExpiryMinutes + 1
    /\ result

(* C10 as stated, read on timestamps without offset: an age of 55 minutes *)
(* or more gives true, an age of 0 to 54 minutes gives false.             *)
C10_ExpiredFrom55 ==
    (pc = "checked" /\ StampKind = "naive") =>
        /\ Age >= ExpiryMinutes => result
        /\ Age \in 0..(ExpiryMinutes - 1) => ~result

(* C10 amended: a timestamp strictly more than 55 minutes in the past     *)
(* gives true whatever the other fields hold; an offset-free timestamp of *)
(* age 0 to 55 minutes, exactly 55 included, gives false.                 *)
C10_ExpiredAfter55 ==
    pc = "checked" =>
        /\ (StampKind \in {"naive", "aware"} /\ Age > ExpiryMinutes) => result
        /\ (StampKind = "naive" /\ Age \in 0..ExpiryMinutes) => ~result

C10_Witness ==
    /\ pc = "checked"
    /\ StampKind = "naive"
    /\ Age = ExpiryMinutes
    /\ credentials.INTUIT_REFRESH_TOKEN = EXPIRED
    /\ ~result

----------------------------------------------------------------------------
(* Claims about refresh_access_token and requires_manual_reauth.  A step  *)
(* in which refresh_access_token ran leaves its event last in the trace.  *)

RefreshRan ==
    /\ trace' # <<>>
    /\ trace'[Len(trace')].op \in {"refresh", "refresh_nopost"}
    /\ \/ pc = "idle" /\ pc' \in {"refresh_done", "reauth_done"}
       \/ pc = "headers" /\ Len(trace') = Len(trace) + 1

Ran == trace'[Len(trace')]

Answered(status, detail) ==
    /\ RefreshRan
    /\ Ran.op = "refresh" /\ Ran.exc = "none"
    /\ Ran.code = status /\ Ran.detail = detail

(* C11: when the token endpoint answers 200 with access_token and         *)
(* refresh_token, the refresh stores both returned values, stamps the     *)
(* current time, has written all three to the file and returns success.   *)
C11_RefreshStoresAndPersists ==
    [][Answered(200, "both") =>
          /\ Ran.ok
          /\ credentials'.INTUIT_ACCESS_TOKEN = issued'
          /\ credentials'.INTUIT_REFRESH_TOKEN = issued'
          /\ credentials'.TOKEN_TIMESTAMP = Stamp("naive", now)
          /\ file'.INTUIT_ACCESS_TOKEN = issued'
          /\ file'.INTUIT_REFRESH_TOKEN = issued'
          /\ file'.TOKEN_TIMESTAMP = Stamp("naive", now)
          /\ issued' = issued + 1]_vars

C11_Witness ==
    /\ pc = "refresh_done"
    /\ result
    /\ trace[1].code = 200
    /\ credentials.INTUIT_ACCESS_TOKEN = issued
    /\ credentials.INTUIT_REFRESH_TOKEN = issued
    /\ credentials.TOKEN_TIMESTAMP = Stamp("naive", now)
    /\ file = credentials

(* C12: after a successful refresh the stored refresh token is not the    *)
(* one held before it, and the token is not expired for _is_token_expired *)
C12_RefreshRotates ==
    [][(RefreshRan /\ Ran.ok) =>
          /\ credentials'.INTUIT_REFRESH_TOKEN # credentials.INTUIT_REFRESH_TOKEN
          /\ ~is_token_expired(credentials', now')]_vars

C12_Witness ==
    /\ pc = "reauth_done"
    /\ ~result
    /\ trace # <<>>
    /\ trace[1].ok
    /\ credentials.INTUIT_REFRESH_TOKEN # trace[1].tok
    /\ ~is_token_expired(credentials, now)

(* C13: on 400 invalid_grant the refresh stores the sentinel 'EXPIRED' as *)
(* refresh token, writes it to the file and returns failure; from then on *)
(* the sentinel stays and every requires_manual_reauth returns true       *)
(* without a network call.                                                *)
C13_InvalidGrantIsSticky ==
    [][/\ Answered(400, "invalid_grant") =>
             /\ ~Ran.ok
             /\ credentials'.INTUIT_REFRESH_TOKEN = EXPIRED
             /\ file'.INTUIT_REFRESH_TOKEN = EXPIRED
       /\ credentials.INTUIT_REFRESH_TOKEN = EXPIRED =>
             /\ credentials'.INTUIT_REFRESH_TOKEN = EXPIRED
             /\ (pc = "idle" /\ pc' = "reauth_done") =>
                    (result' /\ trace' = <<>>)]_vars

C13_Witness ==
    /\ pc = "reauth_done"
    /\ result
    /\ trace = <<>>
    /\ credentials.INTUIT_REFRESH_TOKEN = EXPIRED
    /\ file.INTUIT_REFRESH_TOKEN = EXPIRED
    /\ is_token_expired(credentials, now)

(* C14: no POST goes to the token endpoint while the stored refresh token *)
(* is the sentinel 'EXPIRED' (the trace records the refresh token each    *)
(* POST carried).                                                         *)
C14_NoPostWithSentinel ==
    \A i \in DOMAIN trace :
        trace[i].op = "refresh" => trace[i].tok # EXPIRED

(* C15: a refresh that fails for another reason than invalid_grant leaves *)
(* the credential set in memory and the file as they were.                *)
C15_FailedRefreshChangesNothing ==
    [][(RefreshRan /\ ~Ran.ok /\ ~Answered(400, "invalid_grant")) =>
          (credentials' = credentials /\ file' = file)]_vars

(* C16 as stated, its last part: a make_authenticated_request in which a  *)
(* refresh failed for a missing refresh token, client id or client secret *)
(* makes no network call at all.                                          *)
C16_NoNetworkCallAtAll ==
    \A i, j \in DOMAIN trace :
        trace[i].op = "refresh_nopost" => trace[j].op \notin {"refresh", "http"}

(* C16 amended: with one of refresh token, client id, client secret       *)
(* missing or empty, refresh_access_token fails without a POST to the     *)
(* token endpoint and without changing credentials or file, and the       *)
(* enclosing make_authenticated_request makes no network call after that  *)
(* (none at all when its first attempt already had to refresh).           *)
NoNetworkAfterNoPost ==
    \A i, j \in DOMAIN trace :
        (trace[i].op = "refresh_nopost" /\ j > i)
            => trace[j].op \notin {"refresh", "http"}

AnyMissing ==
    \/ credentials.INTUIT_REFRESH_TOKEN = 0
    \/ credentials.INTUIT_CLIENT_ID = 0
    \/ credentials.INTUIT_CLIENT_SECRET = 0

C16_MissingCredentialsNoPost ==
    /\ [][(RefreshRan /\ AnyMissing) =>
             /\ Ran.op = "refresh_nopost"
             /\ ~Ran.ok
             /\ credentials' = credentials
             /\ file' = file
             /\ issued' = issued]_vars
    /\ []NoNetworkAfterNoPost

C16_Witness ==
    /\ pc = "done"
    /\ credentials.INTUIT_CLIENT_SECRET = 0
    /\ Len(trace) = max_retries + 1
    /\ \A i \in DOMAIN trace : trace[i].op = "refresh_nopost"
    /\ response = NoResponse

(* C17: requires_manual_reauth returns true without a network call when   *)
(* the refresh token is empty or 'EXPIRED'; otherwise, with a token that  *)
(* is not expired, it returns false with no network call and no change of *)
(* state; with an expired token it runs refresh_access_token exactly once *)
(* and returns true exactly when that refresh failed.                     *)
ReauthStep == pc = "idle" /\ pc' = "reauth_done"

C17_ManualReauth ==
    [][ReauthStep =>
          IF credentials.INTUIT_REFRESH_TOKEN \in {0, EXPIRED}
          THEN result' /\ trace' = <<>>
          ELSE IF ~is_token_expired(credentials, now)
          THEN /\ ~result'
               /\ trace' = <<>>
               /\ credentials' = credentials
               /\ file' = file
               /\ issued' = issued
          ELSE /\ Len(trace') = 1
               /\ trace'[1].op \in {"refresh", "refresh_nopost"}
               /\ result' = ~trace'[1].ok]_vars

C17_Witness ==
    /\ pc = "reauth_done"
    /\ result
    /\ Len(trace) = 1
    /\ trace[1].op = "refresh"
    /\ trace[1].code = 500
    /\ credentials.INTUIT_REFRESH_TOKEN = issued

(* C18: with a token that is not expired when the call begins and a first *)
(* response of 200, make_authenticated_request returns that response      *)
(* after one API call, without refresh or retry, and credential set and   *)
(* file are as they were.                                                 *)
TokenUsable ==
    /\ credentials.TOKEN_TIMESTAMP.kind = "naive"
    /\ now - credentials.TOKEN_TIMESTAMP.t <= ExpiryMinutes
    /\ credentials.INTUIT_ACCESS_TOKEN # 0

C18_FreshTokenOneCall ==
    [][/\ (pc = "headers" /\ attempt = 0 /\ now' = now /\ TokenUsable) =>
             /\ pc' = "request"
             /\ trace' = <<>>
             /\ attempt' = 0
             /\ credentials' = credentials
             /\ file' = file
       /\ (pc = "request" /\ trace = <<>>) => attempt = 0
       /\ (pc = "request" /\ trace = <<>> /\ trace' # <<>>
              /\ trace'[1].exc = "none" /\ trace'[1].code = 200) =>
             /\ pc' = "done"
             /\ response' = 200
             /\ Len(trace') = 1
             /\ trace'[1].op = "http"
             /\ credentials' = credentials
             /\ file' = file]_vars

C18_Witness ==
    /\ pc = "done"
    /\ attempt = 0
    /\ Len(trace) = 1
    /\ trace[1].op = "http"
    /\ trace[1].code = 200
    /\ response = 200
    /\ TokenUsable
    /\ file = credentials

----------------------------------------------------------------------------
(* _save_credentials step by step, with a concurrent reader of the file.  *)
(* Spec keeps `file` as the credential set last saved; here `disk` holds  *)
(* the lines the file contains at each moment of the write.               *)

MaxLoads == 1

(* the order of the items of self.credentials *)
KeyOrder ==
    <<"INTUIT_CLIENT_ID", "INTUIT_CLIENT_SECRET", "INTUIT_ACCESS_TOKEN",
      "INTUIT_REFRESH_TOKEN", "TOKEN_TIMESTAMP">>

(* f.write(f"{key}={value}\n") for each item: a line is <<key, value>> *)
Lines(creds) ==
    [i \in 1..Len(KeyOrder) |-> <<KeyOrder[i], creds[KeyOrder[i]]>>]

(* _load_credentials: one entry per key, a later line overriding an *)
(* earlier one; a file without lines gives the empty dictionary      *)
load_credentials(lines) ==
    LET keys == {lines[i][1] : i \in DOMAIN lines}
        Last(k) == CHOOSE i \in DOMAIN lines :
                      /\ lines[i][1] = k
                      /\ \A j \in DOMAIN lines : lines[j][1] = k => j <= i
    IN [k \in keys |-> lines[Last(k)][2]]

SaveInit ==
    /\ \E a \in {0, 1}, ts \in InitStamps :
          credentials = Credentials(a, 1, 1, 1, ts)
    /\ file = credentials
    /\ disk = Lines(credentials)
    /\ written = 0
    /\ now = ExpiryMinutes
    /\ issued = 1
    /\ pc = "idle"
    /\ attempt = 0
    /\ kwargs = [headers |-> FALSE, Authorization |-> 0]
    /\ trace = <<>>
    /\ response = NoResponse
    /\ result = FALSE
    /\ loaded = <<>>
    /\ error_log = <<>>

manager == <<now, attempt, kwargs, trace, response, result, error_log>>

(* refresh_access_token up to its call of _save_credentials: the token *)
(* endpoint answered 200 with both tokens, or 400 invalid_grant        *)
RefreshStore ==
    /\ pc = "idle"
    /\ \E reply \in {Reply("none", 200, "", "both"),
                     Reply("none", 400, "invalid_grant", "")} :
          /\ ProviderCanAnswer(reply, credentials.INTUIT_REFRESH_TOKEN)
          /\ LET r == refresh_access_token(credentials, file, reply, now,
                                           issued + 1)
             IN /\ credentials' = r.credentials
                /\ issued' = IF IssuesTokens(reply) THEN issued + 1 ELSE issued
    /\ pc' = "save"
    /\ UNCHANGED <<file, disk, written, loaded>>
    /\ UNCHANGED manager

(* open(self.credentials_file, 'w') truncates the file *)
SaveOpen ==
    /\ pc = "save"
    /\ disk' = <<>>
    /\ written' = 0
    /\ pc' = "writing"
    /\ UNCHANGED <<credentials, file, issued, loaded>>
    /\ UNCHANGED manager

(* f.write of the next item, into the buffer of the file object *)
SaveWrite ==
    /\ pc = "writing"
    /\ written < Len(KeyOrder)
    /\ written' = written + 1
    /\ UNCHANGED <<credentials, file, disk, issued, pc, loaded>>
    /\ UNCHANGED manager

(* the file object empties its buffer into the file; when it does so *)
(* before the close depends on the buffer size                       *)
SaveFlush ==
    /\ pc = "writing"
    /\ Len(disk) < written
    /\ disk' = SubSeq(Lines(credentials), 1, written)
    /\ UNCHANGED <<credentials, file, written, issued, pc, loaded>>
    /\ UNCHANGED manager

(* leaving the with block flushes and closes the file *)
SaveClose ==
    /\ pc = "writing"
    /\ written = Len(KeyOrder)
    /\ disk' = Lines(credentials)
    /\ file' = load_credentials(disk')
    /\ pc' = "idle"
    /\ UNCHANGED <<credentials, written, issued, loaded>>
    /\ UNCHANGED manager

(* a concurrent _load_credentials on the same file; the observation is *)
(* kept with the set saved last and the set being saved                 *)
Load ==
    /\ Len(loaded) < MaxLoads
    /\ loaded' = Append(loaded, [seen |-> load_credentials(disk),
                                 old |-> file,
                                 new |-> credentials])
    /\ UNCHANGED <<credentials, file, disk, written, issued, pc>>
    /\ UNCHANGED manager

SaveNext ==
    RefreshStore \/ SaveOpen \/ SaveWrite \/ SaveFlush \/ SaveClose \/ Load

SpecSave == SaveInit /\ [][SaveNext]_vars

(* C19: a concurrent _load_credentials, at any point during or after a *)
(* save, reads the complete set saved before or the complete new set,  *)
(* never an empty or partly written one.                               *)
C19_SaveIsAtomic ==
    \A i \in DOMAIN loaded : loaded[i].seen \in {loaded[i].old, loaded[i].new}

----------------------------------------------------------------------------
(* QuickBooksErrorHandler.handle_api_error *)

MaxErrors == 2

ErrStatuses == {200, 400, 401, 402, 403, 404, 429, 500, 503}

(* Texts are sequences of words, so that `in` between strings is a *)
(* search for a contiguous part: 'BusinessValidationFault' is      *)
(* 'Business' followed by 'ValidationFault'.                       *)
ValidationFault == <<"ValidationFault">>
BusinessValidationFault == <<"Business", "ValidationFault">>

Contains(text, part) ==
    \E i \in 0..(Len(text) - Len(part)) :
        SubSeq(text, i + 1, i + Len(part)) = part

(* the Detail of the first Fault.Error of the body: a string, or a JSON *)
(* value that is not a string; a body without Detail gives ''           *)
Details ==
    {[str |-> TRUE, text |-> t] :
        t \in {<<>>, ValidationFault, BusinessValidationFault,
               <<"Required", "param", "missing">>}}
    \cup {[str |-> FALSE, text |-> <<>>]}

(* response bodies: not JSON, JSON that is not an object, a fault object *)
NotJson == [json |-> "invalid", detail |-> [str |-> TRUE, text |-> <<>>]]
JsonArray == [json |-> "array", detail |-> [str |-> TRUE, text |-> <<>>]]
Bodies == {NotJson, JsonArray} \cup {[json |-> "object", detail |-> d] : d \in Details}

(* the Retry-After header: absent, a number of seconds, an HTTP date *)
NoRetryAfter == [kind |-> "absent", n |-> 0]
RetryAfters == {NoRetryAfter, [kind |-> "seconds", n |-> 30], [kind |-> "date", n |-> 0]}

(* the bodies matter for 400 only and the header for 429 only *)
Responses ==
    {r \in [status_code : ErrStatuses, body : Bodies, retry_after : RetryAfters] :
        /\ r.status_code # 400 => r.body = NotJson
        /\ r.status_code # 429 => r.retry_after = NoRetryAfter}

(* what a handler hands back: the entries it sets, or an exception *)
Sets(entries) == [raises |-> FALSE, entries |-> entries]
Raises == [raises |-> TRUE, entries |-> <<>>]

handle_400_errors(resp) ==
    IF resp.body.json # "object" \/ ~resp.body.detail.str
    THEN \* response.json(), error_data.get or the `in` test raised
         Sets([error_type |-> "syntax_error",
               error_category |-> "client_error",
               user_message |-> "Request format error. Please check your data and try again.",
               retry_recommended |-> FALSE])
    ELSE Sets([error_type |-> "validation_error",
               error_category |-> "client_error",
               user_message |->
                   IF Contains(resp.body.detail.text, ValidationFault)
                   THEN "Invalid data provided. Please check your input and try again."
                   ELSE IF Contains(resp.body.detail.text, BusinessValidationFault)
                   THEN "Business rule violation. Please review the data and correct any conflicts."
                   ELSE "",
               retry_recommended |-> FALSE])

handle_401_errors(resp) ==
    Sets([error_type |-> "authentication_error",
          error_category |-> "auth_error",
          user_message |-> "Authentication failed. The system will attempt to refresh your credentials.",
          retry_recommended |-> TRUE])

handle_403_errors(resp) ==
    Sets([error_type |-> "authorization_error",
          error_category |-> "auth_error",
          user_message |-> "Access denied. Please contact support if this persists.",
          retry_recommended |-> FALSE])

handle_404_errors(resp) ==
    Sets([error_type |-> "resource_not_found",
          error_category |-> "client_error",
          user_message |-> "The requested resource could not be found.",
          retry_recommended |-> FALSE])

(* int(retry_after) raises ValueError on a text that is not an integer *)
handle_429_errors(resp) ==
    IF resp.retry_after.kind = "date" THEN Raises
    ELSE Sets([error_type |-> "rate_limit_exceeded",
               error_category |-> "rate_limit",
               retry_after_seconds |->
                   IF resp.retry_after.kind = "absent" THEN 60
                   ELSE resp.retry_after.n,
               user_message |-> "Request rate limit exceeded. Please wait.",
               retry_recommended |-> TRUE])

handle_500_errors(resp) ==
    Sets([error_type |-> "server_error",
          error_category |-> "server_error",
          user_message |-> "Temporary service issue. The system will retry automatically.",
          retry_recommended |-> TRUE])

(* the entries handle_api_error starts from *)
error_info(resp) ==
    [status_code |-> resp.status_code,
     error_type |-> "unknown",
     error_category |-> "unknown",
     user_message |-> "",
     retry_recommended |-> FALSE]

(* mutant: the last branch takes every status from 400 on *)
handle_api_error_from_400(resp) ==
    LET h == IF resp.status_code = 400 THEN handle_400_errors(resp)
             ELSE IF resp.status_code = 401 THEN handle_401_errors(resp)
             ELSE IF resp.status_code = 403 THEN handle_403_errors(resp)
             ELSE IF resp.status_code = 404 THEN handle_404_errors(resp)
             ELSE IF resp.status_code = 429 THEN handle_429_errors(resp)
             ELSE IF resp.status_code >= 400 THEN handle_500_errors(resp)
             ELSE Sets(<<>>)
    IN [raises |-> h.raises, info |-> h.entries @@ error_info(resp)]

(* the dispatch on the status code and error_info.update(...) *)
handle_api_error(resp) ==
    LET h == IF resp.status_code = 400 THEN handle_400_errors(resp)
             ELSE IF resp.status_code = 401 THEN handle_401_errors(resp)
             ELSE IF resp.status_code = 403 THEN handle_403_errors(resp)
             ELSE IF resp.status_code = 404 THEN handle_404_errors(resp)
             ELSE IF resp.status_code = 429 THEN handle_429_errors(resp)
             ELSE IF resp.status_code >= 500 THEN handle_500_errors(resp)
             ELSE Sets(<<>>)
    IN [raises |-> h.raises, info |-> h.entries @@ error_info(resp)]

ErrInit ==
    /\ \E a \in {0, 1}, ts \in InitStamps :
          credentials = Credentials(a, 1, 1, 1, ts)
    /\ file = credentials
    /\ disk = <<>>
    /\ written = 0
    /\ now = ExpiryMinutes
    /\ issued = 1
    /\ pc = "idle"
    /\ attempt = 0
    /\ kwargs = [headers |-> FALSE, Authorization |-> 0]
    /\ trace = <<>>
    /\ response = NoResponse
    /\ result = FALSE
    /\ loaded = <<>>
    /\ error_log = <<>>

(* handle_api_error(response): the descriptor is appended to error_log *)
(* and returned, unless a handler raised                               *)
HandleApiError ==
    /\ pc = "idle"
    /\ Len(error_log) < MaxErrors
    /\ \E resp \in Responses :
          LET r == handle_api_error(resp)
          IN /\ response' = resp
             /\ IF r.raises
                THEN /\ pc' = "error_raised"
                     /\ UNCHANGED <<result, error_log>>
                ELSE /\ pc' = "error_handled"
                     /\ result' = r.info
                     /\ error_log' = Append(error_log, r.info)
    /\ UNCHANGED <<credentials, file, now, issued, attempt, kwargs, trace,
                   loaded, disk, written>>

(* the caller has the descriptor, or the exception *)
ErrReturn ==
    /\ pc \in {"error_handled", "error_raised"}
    /\ pc' = "idle"
    /\ UNCHANGED <<credentials, file, now, issued, attempt, kwargs, trace,
                   response, result, loaded, disk, written, error_log>>

ErrNext == HandleApiError \/ ErrReturn

SpecErr == ErrInit /\ [][ErrNext]_vars

(* C20: a descriptor returned by handle_api_error has error_category    *)
(* client_error for 400 and 404, auth_error for 401 and 403, rate_limit *)
(* for 429, server_error from 500 on and unknown for any other status,  *)
(* and retry_recommended exactly for 401, 429 and 500 on.               *)
CategoryOf(status) ==
    IF status \in {400, 404} THEN "client_error"
    ELSE IF status \in {401, 403} THEN "auth_error"
    ELSE IF status = 429 THEN "rate_limit"
    ELSE IF status >= 500 THEN "server_error"
    ELSE "unknown"

C20_CategoryByStatus ==
    pc = "error_handled" =>
        /\ result.status_code = response.status_code
        /\ result.error_category = CategoryOf(response.status_code)
        /\ result.retry_recommended =
               (response.status_code \in {401, 429} \/ response.status_code >= 500)
        /\ error_log[Len(error_log)] = result

C20_Witness ==
    /\ pc = "error_handled"
    /\ response.status_code = 402
    /\ result.error_category = "unknown"
    /\ ~result.retry_recommended
    /\ Len(error_log) = MaxErrors
    /\ error_log[1].error_category = "rate_limit"
    /\ error_log[1].retry_recommended

(* C21: for a 400 response the descriptor has error_type syntax_error  *)
(* when the body is not JSON, business_validation_error when the fault *)
(* reports a BusinessValidationFault and validation_error when it      *)
(* reports a ValidationFault.                                          *)
Reports(resp, fault) ==
    /\ resp.body.json = "object"
    /\ resp.body.detail.str
    /\ Contains(resp.body.detail.text, fault)

C21_Distinct400Types ==
    (pc = "error_handled" /\ response.status_code = 400) =>
        /\ response.body.json = "invalid" => result.error_type = "syntax_error"
        /\ Reports(response, BusinessValidationFault)
              => result.error_type = "business_validation_error"
        /\ (Reports(response, ValidationFault)
              /\ ~Reports(response, BusinessValidationFault))
              => result.error_type = "validation_error"

(* C22: every handle_api_error call with a 429 response returns a  *)
(* descriptor, and its retry_after_seconds is the value of the     *)
(* Retry-After header, or 60 when the header is absent.            *)
C22_RetryAfterSeconds ==
    (pc \in {"error_handled", "error_raised"} /\ response.status_code = 429) =>
        /\ pc = "error_handled"
        /\ result.retry_after_seconds =
               IF response.retry_after.kind = "absent" THEN 60
               ELSE response.retry_after.n

(* C23: every descriptor handle_api_error returns for an error status, *)
(* whatever the status and the body, has a user_message that is not    *)
(* empty.                                                              *)
C23_UserMessageNotEmpty ==
    (pc = "error_handled" /\ response.status_code >= 400)
        => result.user_message # ""

----------------------------------------------------------------------------
(* QuickBooksErrorHandler.log_api_request: the headers it logs *)

(* a header key is a name spelt in some letter case *)
Cases == {"lower", "Title", "UPPER", "mIxEd"}
Key(name, case) == [name |-> name, case |-> case]
HeaderKeys ==
    {Key("authorization", c) : c \in Cases}
    \cup {Key("accept", "Title"), Key("content-type", "lower")}

(* mutant: the keys are compared as they are spelt *)
LowerAsSpelt(k) == k

(* k.lower() *)
Lower(k) == Key(k.name, "lower")

(* header values: the bearer token of the request, or something else *)
Bearer(tok) == [text |-> "Bearer", tok |-> tok]
Plain(text) == [text |-> text, tok |-> 0]
Redacted == Plain("[REDACTED]")
None == Plain("None")
HeaderValues(k) ==
    IF k.name = "authorization" THEN {Bearer(t) : t \in 1..MaxTok}
    ELSE {Plain("application/json")}

(* the headers a caller may pass: any keys, the bearer token under the *)
(* authorization keys                                                  *)
RequestHeaders ==
    UNION {{h \in [K -> UNION {HeaderValues(k) : k \in K}] :
                \A k \in K : h[k] \in HeaderValues(k)} :
           K \in SUBSET HeaderKeys}

(* safe_headers, lines 49-50 *)
safe_headers(headers) ==
    LET kept == {k \in DOMAIN headers : Lower(k) # Key("authorization", "lower")}
        auth == Key("authorization", "Title")
        has == Key("authorization", "lower") \in {Lower(k) : k \in DOMAIN headers}
    IN [k \in kept \cup {auth} |->
           IF k = auth THEN (IF has THEN Redacted ELSE None) ELSE headers[k]]

(* json.dumps(safe_headers): every entry of the dictionary is written *)
Dumps(dict) == {<<k, dict[k]>> : k \in DOMAIN dict}

LogInit ==
    /\ \E a \in {0, 1}, ts \in InitStamps :
          credentials = Credentials(a, 1, 1, 1, ts)
    /\ file = credentials
    /\ disk = <<>>
    /\ written = 0
    /\ now = ExpiryMinutes
    /\ issued = 1
    /\ pc = "log_api_request"
    /\ attempt = 0
    /\ \E h \in RequestHeaders : kwargs = [headers |-> h]
    /\ trace = <<>>
    /\ response = NoResponse
    /\ result = FALSE
    /\ loaded = <<>>
    /\ error_log = <<>>

(* log_api_request(method, url, headers): `result` is what the logger *)
(* was given for the headers                                          *)
LogApiRequest ==
    /\ pc = "log_api_request"
    /\ result' = Dumps(safe_headers(kwargs.headers))
    /\ pc' = "logged"
    /\ UNCHANGED <<credentials, file, now, issued, attempt, kwargs, trace,
                   response>>
    /\ UNCHANGED others

LogNext == LogApiRequest

SpecLog == LogInit /\ [][LogNext]_vars

(* C24: whatever the letter case of the authorization key, what is     *)
(* logged for the headers holds no bearer token, and the Authorization *)
(* entry that replaces it reads '[REDACTED]'.                          *)
IsBearer(v) == v.tok # 0
HasAuthorization ==
    \E k \in DOMAIN kwargs.headers : k.name = "authorization"

C24_BearerNeverLogged ==
    pc = "logged" =>
        /\ \A e \in result : ~IsBearer(e[2])
        /\ HasAuthorization =>
              \A e \in result : e[1].name = "authorization" => e[2] = Redacted

C24_Witness ==
    /\ pc = "logged"
    /\ Key("authorization", "mIxEd") \in DOMAIN kwargs.headers
    /\ Key("authorization", "UPPER") \in DOMAIN kwargs.headers
    /\ Key("accept", "Title") \in DOMAIN kwargs.headers
    /\ <<Key("authorization", "Title"), Redacted>> \in result
    /\ <<Key("accept", "Title"), Plain("application/json")>> \in result

----------------------------------------------------------------------------
(* The credential file character by character: what _save_credentials *)
(* writes and what _load_credentials makes of a text.  A string is a   *)
(* sequence of characters.                                             *)

MaxStr == 2
MaxText == 4

Chars == {"k", "=", "#", " ", "\n"}
Whitespace == {" ", "\n"}

Least(S) == CHOOSE x \in S : \A y \in S : x <= y
Greatest(S) == CHOOSE x \in S : \A y \in S : y <= x

Strings(n) == UNION {[1..m -> Chars] : m \in 0..n}

(* for line in f: a line ends with its newline, the last one may not *)
RECURSIVE SplitLines(_)
SplitLines(text) ==
    IF text = <<>> THEN <<>>
    ELSE LET nl == {i \in DOMAIN text : text[i] = "\n"}
             e == IF nl = {} THEN Len(text) ELSE Least(nl)
         IN <<SubSeq(text, 1, e)>> \o SplitLines(SubSeq(text, e + 1, Len(text)))

(* str.strip() *)
Strip(str) ==
    LET solid == {i \in DOMAIN str : str[i] \notin Whitespace}
    IN IF solid = {} THEN <<>>
       ELSE SubSeq(str, Least(solid), Greatest(solid))

EqualsAt(str) == {i \in DOMAIN str : str[i] = "="}

(* mutant: the line is split on its last '=' *)
SplitOnLast(line) ==
    LET e == Greatest(EqualsAt(line))
    IN <<SubSeq(line, 1, e - 1), SubSeq(line, e + 1, Len(line))>>

(* line.split('=', 1) *)
Split(line) ==
    LET e == Least(EqualsAt(line))
    IN <<SubSeq(line, 1, e - 1), SubSeq(line, e + 1, Len(line))>>

(* '=' in line and not line.startswith('#') *)
IsEntry(line) ==
    /\ EqualsAt(line) # {}
    /\ ~(line # <<>> /\ line[1] = "#")

(* lines 31-35: the <<key, value>> pairs of the lines that are entries *)
RECURSIVE Entries(_)
Entries(lines) ==
    IF lines = <<>> THEN <<>>
    ELSE LET line == Strip(Head(lines))
             kv == Split(line)
         IN (IF IsEntry(line) THEN <<<<Strip(kv[1]), Strip(kv[2])>>>> ELSE <<>>)
            \o Entries(Tail(lines))

(* _load_credentials on a file with this text *)
load_text(text) == load_credentials(Entries(SplitLines(text)))

(* _save_credentials: f.write(f"{key}={value}\n") for each item *)
RECURSIVE save_text(_)
save_text(items) ==
    IF items = <<>> THEN <<>>
    ELSE Head(items)[1] \o <<"=">> \o Head(items)[2] \o <<"\n">>
         \o save_text(Tail(items))

(* the items of a credential dictionary: one drawn entry, alone or *)
(* followed by a second entry with another key                     *)
Dictionaries ==
    LET first == {<<<<k, v>>>> : k \in Strings(MaxStr), v \in Strings(MaxStr)}
    IN {<<>>} \cup first
       \cup {d \o <<<<[i \in 1..(MaxStr + 1) |-> "k"], (<<"=", "k">>)>>>> :
                 d \in first}

FileInit ==
    /\ \/ /\ pc = "load"
          /\ credentials = <<>>
          /\ disk \in Strings(MaxText)
       \/ /\ pc = "save"
          /\ credentials \in Dictionaries
          /\ disk = <<>>
    /\ file = <<>>
    /\ written = 0
    /\ now = ExpiryMinutes
    /\ issued = 1
    /\ attempt = 0
    /\ kwargs = [headers |-> FALSE, Authorization |-> 0]
    /\ trace = <<>>
    /\ response = NoResponse
    /\ result = FALSE
    /\ loaded = <<>>
    /\ error_log = <<>>

SaveFile ==
    /\ pc = "save"
    /\ disk' = save_text(credentials)
    /\ written' = Len(credentials)
    /\ pc' = "saved"
    /\ UNCHANGED <<credentials, file, now, issued, attempt, kwargs, trace,
                   response, result, loaded, error_log>>

LoadFile ==
    /\ pc \in {"load", "saved"}
    /\ loaded' = load_text(disk)
    /\ pc' = IF pc = "saved" THEN "reloaded" ELSE "file_loaded"
    /\ UNCHANGED <<credentials, file, now, issued, attempt, kwargs, trace,
                   response, result, disk, written, error_log>>

FileNext == SaveFile \/ LoadFile

SpecFile == FileInit /\ [][FileNext]_vars

(* C25: _load_credentials ignores the lines that start with '#' or hold *)
(* no '=', splits every other line on its first '=', and gives back     *)
(* exactly the dictionary _save_credentials wrote, when keys and values *)
(* have no newline and no whitespace around them and keys have no '='   *)
(* and no '#' in front.                                                 *)
Has(str, c) == \E i \in DOMAIN str : str[i] = c
Clean(str) ==
    /\ ~Has(str, "\n")
    /\ str # <<>> => (str[1] \notin Whitespace /\ str[Len(str)] \notin Whitespace)
CleanKey(key) ==
    /\ Clean(key)
    /\ ~Has(key, "=")
    /\ key # <<>> => key[1] # "#"
CleanItems(items) ==
    \A i \in DOMAIN items : CleanKey(items[i][1]) /\ Clean(items[i][2])
AsDict(items) ==
    [key \in {items[i][1] : i \in DOMAIN items} |->
        LET i == CHOOSE j \in DOMAIN items : items[j][1] = key IN items[i][2]]

Ignored(line) ==
    \/ ~Has(line, "=")
    \/ line[1] = "#"
FirstEquals(line) == CHOOSE i \in DOMAIN line :
    line[i] = "=" /\ \A j \in 1..(i - 1) : line[j] # "="
KeyOf(line) ==
    Strip(SubSeq(Strip(line), 1, FirstEquals(Strip(line)) - 1))
ValueOf(line) ==
    Strip(SubSeq(Strip(line), FirstEquals(Strip(line)) + 1, Len(Strip(line))))

C25_LoadReadsWhatSaveWrote ==
    /\ (pc = "reloaded" /\ CleanItems(credentials))
          => loaded = AsDict(credentials)
    /\ pc = "file_loaded" =>
          LET lines == SplitLines(disk)
          IN /\ \A key \in DOMAIN loaded :
                   \E i \in DOMAIN lines :
                       /\ ~Ignored(lines[i])
                       /\ KeyOf(lines[i]) = key
                       /\ ValueOf(lines[i]) = loaded[key]
             /\ \A i \in DOMAIN lines :
                   (~Ignored(lines[i]) /\ Strip(lines[i])[1] # "#")
                       => KeyOf(lines[i]) \in DOMAIN loaded

C25_Witness ==
    /\ pc = "reloaded"
    /\ Len(credentials) = 2
    /\ credentials[1] = <<(<<"k">>), (<<"=", "#">>)>>
    /\ CleanItems(credentials)
    /\ DOMAIN loaded = {credentials[1][1], credentials[2][1]}
    /\ loaded[<<"k">>] = <<"=", "#">>

----------------------------------------------------------------------------
(* C26: make_authenticated_request sleeps only before a retry and never *)
(* after its last attempt; after a response of 500 or more on attempt k *)
(* with attempts remaining it sleeps 2^k seconds, so three such         *)
(* responses in a row cost 3 seconds of sleep.                          *)
RECURSIVE SleepSeconds(_)
SleepSeconds(events) ==
    IF events = <<>> THEN 0
    ELSE (IF Head(events).op = "sleep" THEN Head(events).code ELSE 0)
         + SleepSeconds(Tail(events))

C26_BackoffOnlyBeforeRetry ==
    /\ \A i \in SleepIdx :
          /\ i > 1
          /\ trace[i - 1].op = "http"
          /\ trace[i - 1].attempt = trace[i].attempt
          /\ trace[i].attempt < max_retries
          /\ trace[i - 1].exc = "none" =>
                (trace[i - 1].code >= 500 /\ trace[i].code = 2 ^ trace[i].attempt)
          /\ IsLast(i) =>
                (pc \in {"headers", "request"} /\ attempt = trace[i].attempt + 1)
    /\ \A i \in HttpIdx :
          (trace[i].exc = "none" /\ trace[i].code >= 500
              /\ trace[i].attempt < max_retries)
            => (i + 1 \in SleepIdx /\ trace[i + 1].code = 2 ^ trace[i].attempt)
    /\ (Len(HttpEvents) = max_retries + 1 /\ AllAttemptsGot(Is5xx))
          => SleepSeconds(trace) = 3

C26_Witness ==
    /\ pc = "done"
    /\ Len(HttpEvents) = max_retries + 1
    /\ AllAttemptsGot(Is5xx)
    /\ Cardinality(SleepIdx) = 2
    /\ SleepSeconds(trace) = 3
    /\ trace[Len(trace)].op = "http"
    /\ response = 503

----------------------------------------------------------------------------
(* get_error_summary: the number of entries of error_log and the number *)
(* of entries of each category                                          *)
get_error_summary(log) ==
    [total_errors |-> Len(log),
     error_categories |->
        [c \in {log[i].error_category : i \in DOMAIN log} |->
            Cardinality({i \in DOMAIN log : log[i].error_category = c})]]

RECURSIVE SumOf(_)
SumOf(counts) ==
    IF DOMAIN counts = {} THEN 0
    ELSE LET c == CHOOSE x \in DOMAIN counts : TRUE
         IN counts[c] + SumOf([x \in DOMAIN counts \ {c} |-> counts[x]])

(* C27: every call of handle_api_error appends one descriptor to        *)
(* error_log and leaves the earlier entries as they were, so the log    *)
(* has one entry per call, and get_error_summary reports that number as *)
(* total_errors and as the sum of its counts per category.              *)
HandleStep == pc = "idle" /\ pc' \in {"error_handled", "error_raised"}

C27_OneEntryPerCall ==
    /\ [][HandleStep =>
             /\ Len(error_log') = Len(error_log) + 1
             /\ SubSeq(error_log', 1, Len(error_log)) = error_log]_vars
    /\ [](LET summary == get_error_summary(error_log)
          IN /\ summary.total_errors = Len(error_log)
             /\ SumOf(summary.error_categories) = summary.total_errors)

----------------------------------------------------------------------------
(* The executor under fair scheduling: the single thread of control *)
(* goes on with the step it is at.                                  *)
SpecLive == Spec /\ WF_vars(Headers) /\ WF_vars(Request)

(* C28: whatever the responses, refresh outcomes and exceptions, a      *)
(* make_authenticated_request call ends after at most 3 API calls and   *)
(* at most 3 POSTs to the token endpoint, and it returns no response    *)
(* only when its last attempt ended in a failed refresh, in a missing   *)
(* access token or in a network exception.                              *)
PostIdx == {i \in DOMAIN trace : trace[i].op = "refresh"}

InCall == pc \in {"headers", "request", "done"}

LastAttemptFailed ==
    \/ credentials.INTUIT_ACCESS_TOKEN = 0
    \/ /\ trace # <<>>
       /\ trace[Len(trace)].attempt = 2
       /\ \/ trace[Len(trace)].op \in {"refresh", "refresh_nopost"}
             /\ ~trace[Len(trace)].ok
          \/ trace[Len(trace)].op = "http"
             /\ trace[Len(trace)].exc # "none"

C28_CallTerminates ==
    /\ [](InCall => (Cardinality(HttpIdx) <= 3 /\ Cardinality(PostIdx) <= 3))
    /\ []((pc = "done" /\ response = NoResponse) => LastAttemptFailed)
    /\ (pc \in {"headers", "request"}) ~> (pc = "done")

C28_Witness ==
    /\ pc = "done"
    /\ response = NoResponse
    /\ Cardinality(HttpIdx) = 3
    /\ Cardinality(PostIdx) = 2
    /\ trace[Len(trace)].exc = "ConnectionError"

----------------------------------------------------------------------------
(* C29, its particular case: when make_authenticated_request,          *)
(* refresh_access_token or requires_manual_reauth has returned, the    *)
(* timestamp that forces a refresh after a 401 is neither left in the  *)
(* in-memory credential set nor written to the file.                   *)
HasReturned == pc \in {"done", "refresh_done", "reauth_done"}

C29_ForcedStaleDoesNotSurvive ==
    HasReturned =>
        /\ credentials.TOKEN_TIMESTAMP # ForcedStale
        /\ file.TOKEN_TIMESTAMP # ForcedStale

----------------------------------------------------------------------------
(* Two QuickBooksAuthManager instances on one credentials file.  Here  *)
(* `credentials` holds the in-memory set of each instance, and a       *)
(* refresh with its save is one step: the callers' lock makes it a     *)
(* critical section.                                                   *)

MaxPosts == 3

Instances == {1, 2}

(* the answers of the token endpoint to a well-formed request *)
SharedReplies ==
    {Reply("none", 200, "", "both"),
     Reply("none", 400, "invalid_grant", ""),
     Reply("none", 500, "", ""),
     Reply("Timeout", 0, "", "")}

(* the provider rejects with invalid_grant only a refresh token that is *)
(* not the one it issued last                                           *)
Rejects(reply) ==
    reply.exc = "none" /\ reply.status = 400 /\ reply.error = "invalid_grant"

SharedInit ==
    /\ file \in {Credentials(1, 1, 1, 1, ts) : ts \in InitStamps}
    /\ credentials = [i \in Instances |-> file]
    /\ disk = <<>>
    /\ written = 0
    /\ now = ExpiryMinutes
    /\ issued = 1
    /\ pc = "idle"
    /\ attempt = 0
    /\ kwargs = [headers |-> FALSE, Authorization |-> 0]
    /\ trace = <<>>
    /\ response = NoResponse
    /\ result = FALSE
    /\ loaded = <<>>
    /\ error_log = <<>>

(* __init__ of instance i: self.credentials = self._load_credentials() *)
Construct(i) ==
    /\ credentials[i] # file
    /\ credentials' = [credentials EXCEPT ![i] = file]
    /\ UNCHANGED <<file, now, issued, pc, attempt, kwargs, trace, response,
                   result>>
    /\ UNCHANGED others

(* instance i runs refresh_access_token inside the critical section: *)
(* it sends the refresh token it has in memory                       *)
SharedRefresh(i) ==
    /\ Len(trace) < MaxPosts
    /\ \E reply \in SharedReplies :
          LET sentTok == credentials[i].INTUIT_REFRESH_TOKEN
              r == refresh_access_token(credentials[i], file, reply, now,
                                        issued + 1)
          IN /\ ProviderCanAnswer(reply, sentTok)
             /\ Rejects(reply) => sentTok # issued
             /\ credentials' = [credentials EXCEPT ![i] = r.credentials]
             /\ file' = r.file
             /\ issued' = IF IssuesTokens(reply) THEN issued + 1 ELSE issued
             /\ trace' = Append(trace, RefreshEvent(reply, sentTok, r.ok, i))
    /\ UNCHANGED <<now, pc, attempt, kwargs, response, result>>
    /\ UNCHANGED others

SharedNext ==
    \/ \E i \in Instances : Construct(i)
    \/ \E i \in Instances : SharedRefresh(i)
    \/ Tick

SpecShared == SharedInit /\ [][SharedNext]_vars

(* C30: with the refresh-then-save sequences of the two instances     *)
(* locked against each other, no instance sends a refresh token the   *)
(* provider has already rotated, and the file holds the refresh token *)
(* issued last, never the 'EXPIRED' sentinel in its place.            *)
C30_SharedFileKeepsLatestToken ==
    [][(Len(trace') = Len(trace) + 1) =>
          /\ trace'[Len(trace')].tok = issued
          /\ file'.INTUIT_REFRESH_TOKEN = issued']_vars

====
